---- MODULE Spec2Model ----
(***************************************************************************)
(* Access rules of the real-estate application: the Firestore rule set     *)
(* (users, agents, properties, inquiries, propertyViews) and the Storage   *)
(* rule set (properties/, agent-photos/, users/).  Every request is        *)
(* evaluated against the rules and, when allowed, applied to the store.    *)
(*                                                                         *)
(* Rule expressions are three-valued: "T", "F" and "E" (evaluation error,  *)
(* e.g. a field read on a missing key or on null).  A rule grants access   *)
(* only when its condition evaluates to "T".                               *)
(***************************************************************************)
EXTENDS Integers, Sequences, FiniteSets, TLC

VARIABLES users, agents, property, inquiry, propertyViews, files, last,
          details, listing, authCtx, verifier

vars == <<users, agents, property, inquiry, propertyViews, files, last,
          details, listing, authCtx, verifier>>

\* State of the client pages and helpers
clientVars == <<details, listing, authCtx, verifier>>

----------------------------------------------------------------------------
(* Bounds *)

MaxViews == 2
MaxSaved == 1
MaxList == 3
MaxPending == 2
MaxCalls == 2

Uids == {"u1", "u2"}
NoAuth == "<anon>"
Principals == Uids \cup {NoAuth}
Absent == "<absent>"

NoDoc == "<nodoc>"
NoRoleField == "<norole>"
NullRole == "<null>"
RoleError == "<error>"
Roles == {"user", "agent", "admin"}
UserVals == Roles \cup {NoRoleField}
AgentProfile == "<profile>"
Statuses == {"new", "contacted"}

----------------------------------------------------------------------------
(* Three-valued rule expressions *)

\* && and || absorb an error in one operand when the other operand decides
\* the result (false && error = false, true || error = true).
B3(b) == IF b THEN "T" ELSE "F"

And3(a, b) ==
  IF a = "F" \/ b = "F" THEN "F"
  ELSE IF a = "E" \/ b = "E" THEN "E"
  ELSE "T"

Or3(a, b) ==
  IF a = "T" \/ b = "T" THEN "T"
  ELSE IF a = "E" \/ b = "E" THEN "E"
  ELSE "F"

Decision(v) == IF v = "T" THEN "ALLOW" ELSE "DENY"

----------------------------------------------------------------------------
(* Documents of the properties collection *)

NoInt == [has |-> FALSE, n |-> 0]
IntVal(n) == [has |-> TRUE, n |-> n]
ViewVals == {IntVal(n) : n \in 0..MaxViews}

ListsUpTo(k) == UNION {[1..n -> Uids] : n \in 0..k}
NoField == [kind |-> "absent", items |-> <<>>]
NotAList == [kind |-> "other", items |-> <<>>]
ListVal(l) == [kind |-> "list", items |-> l]
SavedVals == {NoField, NotAList} \cup {ListVal(l) : l \in ListsUpTo(MaxSaved)}

PropertyFields == {"agentId", "views", "savedBy"}

PropertyDocs ==
  [exists : {TRUE}, agentId : Uids, views : ViewVals, savedBy : SavedVals]

NoProperty ==
  [exists |-> FALSE, agentId |-> Absent, views |-> NoInt,
   savedBy |-> NoField]

----------------------------------------------------------------------------
(* Helper functions of the Firestore rule set *)

isAuthenticated(auth) == auth # NoAuth

\* request.auth.uid == userId: an error when there is no auth
isOwner(auth, userId) == IF auth = NoAuth THEN "E" ELSE B3(auth = userId)

\* The role cached across requests: right after a write to users/{uid} the
\* role that document held before the write is still used
getUserRole_Stale(auth, usersDb) ==
  LET held == IF /\ last.coll = "users"
                 /\ last.id = auth
                 /\ last.op # "read"
                 /\ last.decision = "ALLOW"
              THEN last.existing
              ELSE IF auth = NoAuth THEN NoRoleField ELSE usersDb[auth]
  IN IF auth = NoAuth THEN RoleError
     ELSE IF held = NoDoc THEN NullRole
     ELSE IF held = NoRoleField THEN RoleError
     ELSE held

\* The role read from users/{request.auth.uid}: NullRole when there is no
\* document, RoleError when the read cannot be evaluated (no auth, or a
\* document without a role field)
getUserRole(auth, usersDb) ==
  IF auth = NoAuth THEN RoleError
  ELSE IF usersDb[auth] = NoDoc THEN NullRole
  ELSE IF usersDb[auth] = NoRoleField THEN RoleError
  ELSE usersDb[auth]

hasRole(auth, usersDb, role) ==
  IF getUserRole(auth, usersDb) = RoleError THEN "E"
  ELSE B3(getUserRole(auth, usersDb) = role)

isAgent(auth, usersDb) ==
  LET role == getUserRole(auth, usersDb)
  IN IF role = RoleError THEN "E" ELSE B3(role = "agent" \/ role = "admin")

\* isAdmin written as a deny-list: every role but user passes
isAdmin_NotUser(auth, usersDb) ==
  IF getUserRole(auth, usersDb) = RoleError THEN "E"
  ELSE B3(getUserRole(auth, usersDb) # "user")

isAdmin(auth, usersDb) == hasRole(auth, usersDb, "admin")

\* request.auth.uid == <field>: an error when there is no auth or no field
uidEquals(auth, resource, value) ==
  IF auth = NoAuth \/ ~resource.exists \/ value = Absent THEN "E"
  ELSE B3(value = auth)

\* request.resource.data.diff(resource.data).affectedKeys()
affectedKeys(incoming, resource) ==
  {f \in PropertyFields : incoming[f] # resource[f]}

\* hasOnly read as "touches one of the allowed keys"
hasOnly_Any(keys, allowed) == keys \cap allowed # {}

hasOnly(keys, allowed) == keys \subseteq allowed

\* removeAll comparing position by position instead of by value
removeAll_ByIndex(list, other) ==
  LET keep == {i \in 1..Len(list) : i > Len(other) \/ other[i] # list[i]}
      nth(k) == CHOOSE i \in keep : Cardinality({j \in keep : j < i}) = k - 1
  IN [k \in 1..Cardinality(keep) |-> list[nth(k)]]

\* list.removeAll(other): the elements of list that are not in other
RECURSIVE removeAll(_, _)
removeAll(list, other) ==
  IF list = <<>> THEN <<>>
  ELSE LET rest == removeAll(Tail(list), other)
       IN IF \E i \in 1..Len(other) : other[i] = Head(list)
          THEN rest ELSE <<Head(list)>> \o rest

isValidSavedByUpdate(incoming, resource) ==
  And3(B3(incoming.savedBy.kind # "absent"),
    And3(B3(incoming.savedBy.kind = "list"),
      Or3(B3(~resource.exists),
        And3(IF resource.savedBy.kind = "absent" THEN "E"
             ELSE B3(resource.savedBy.kind = "list"),
          Or3(B3(Len(incoming.savedBy.items) = Len(resource.savedBy.items) + 1
                 /\ Len(removeAll(incoming.savedBy.items,
                                  resource.savedBy.items)) = 1),
              B3(Len(incoming.savedBy.items) = Len(resource.savedBy.items) - 1
                 /\ Len(removeAll(resource.savedBy.items,
                                  incoming.savedBy.items)) = 1))))))

\* Inputs of the validator: savedBy lists with duplicates, three ids
ValidatorIds == {"u1", "u2", "u3"}

ValidatorSaved ==
  {NoField, NotAList}
    \cup {ListVal(l) : l \in UNION {[1..n -> ValidatorIds] : n \in 0..MaxList}}

ValidatorDocs ==
  [exists : {TRUE}, agentId : {"u1"}, views : {IntVal(0)},
   savedBy : ValidatorSaved]

----------------------------------------------------------------------------
(* Documents of the inquiries collection and stored files *)

InquiryDocs ==
  [exists : {TRUE}, userId : Uids, agentId : Uids, status : Statuses]

NoInquiry ==
  [exists |-> FALSE, userId |-> Absent, agentId |-> Absent, status |-> Absent]

MaxFileSize == 5 * 1024 * 1024

ImagePng == <<"i", "m", "a", "g", "e", "/", "p", "n", "g">>
TextPlain == <<"t", "e", "x", "t", "/", "p", "l", "a", "i", "n">>
XImagePng == <<"x">> \o ImagePng
ContentTypes == {ImagePng, TextPlain, XImagePng}
FileSizes == {MaxFileSize - 1, MaxFileSize}

Files == [exists : {TRUE}, contentType : ContentTypes, size : FileSizes]
NoFile == [exists |-> FALSE, contentType |-> <<>>, size |-> 0]

StorageOwner == "u1"
PropertyImages == "properties/{userId}/{imageId}"
AgentPhotos == "agent-photos/{userId}"
UserImages == "users/{userId}/{imageId}"
StoragePaths == {PropertyImages, AgentPhotos, UserImages}

----------------------------------------------------------------------------
(* match /properties/{propertyId} *)

PropertyRead == "T"

\* The properties create rule gated on isAgent() as well
PropertyCreateRule_AgentOnly(auth) ==
  And3(B3(isAuthenticated(auth)), isAgent(auth, users))

PropertyCreateRule(auth) == B3(isAuthenticated(auth))

\* The view counter compared with > instead of == ... + 1
ViewsPlusOne_AnyIncrease(incoming, resource) ==
  IF ~incoming.views.has \/ ~resource.views.has THEN "E"
  ELSE B3(incoming.views.n > resource.views.n)

\* The views branch accepting a step of one in either direction
ViewsPlusOne_EitherWay(incoming, resource) ==
  IF ~incoming.views.has \/ ~resource.views.has THEN "E"
  ELSE B3(incoming.views.n \in {resource.views.n + 1, resource.views.n - 1})

ViewsPlusOne(incoming, resource) ==
  IF ~incoming.views.has \/ ~resource.views.has THEN "E"
  ELSE B3(incoming.views.n = resource.views.n + 1)

SavedByIsList(incoming) ==
  IF incoming.savedBy.kind = "absent" THEN "E"
  ELSE B3(incoming.savedBy.kind = "list")

\* The savedBy branch without its affectedKeys().hasOnly(['savedBy']) gate
PropertyUpdateRule_NoDiffGate(auth, incoming, resource) ==
  And3(B3(isAuthenticated(auth)),
    Or3(uidEquals(auth, resource, resource.agentId),
      Or3(And3(B3(hasOnly(affectedKeys(incoming, resource), {"views"})),
               ViewsPlusOne(incoming, resource)),
          SavedByIsList(incoming))))

PropertyUpdateRule(auth, incoming, resource) ==
  And3(B3(isAuthenticated(auth)),
    Or3(uidEquals(auth, resource, resource.agentId),
      Or3(And3(B3(hasOnly(affectedKeys(incoming, resource), {"views"})),
               ViewsPlusOne(incoming, resource)),
          And3(B3(hasOnly(affectedKeys(incoming, resource), {"savedBy"})),
               SavedByIsList(incoming)))))

PropertyDeleteRule(auth, resource) ==
  And3(B3(isAuthenticated(auth)),
       uidEquals(auth, resource, resource.agentId))

----------------------------------------------------------------------------
(* Requests on the properties collection *)

Req(coll, op, auth, id, resource, incoming, d) ==
  [coll |-> coll, op |-> op, uid |-> auth, id |-> id,
   existing |-> resource, proposed |-> incoming, decision |-> d]

NoReq == Req("none", "none", NoAuth, "", NoDoc, NoDoc, "DENY")

CreatePropertyBy(auth) ==
  \E doc \in PropertyDocs :
    /\ ~property.exists
    /\ LET d == Decision(PropertyCreateRule(auth)) IN
         /\ property' = IF d = "ALLOW" THEN doc ELSE property
         /\ last' = Req("properties", "create", auth, "p1", property, doc, d)
    /\ UNCHANGED <<users, agents, inquiry, propertyViews, files,
                clientVars>>

CreateProperty == \E auth \in Principals : CreatePropertyBy(auth)

UpdatePropertyBy(auth) ==
  \E doc \in PropertyDocs :
    /\ property.exists
    /\ LET d == Decision(PropertyUpdateRule(auth, doc, property)) IN
         /\ property' = IF d = "ALLOW" THEN doc ELSE property
         /\ last' = Req("properties", "update", auth, "p1", property, doc, d)
    /\ UNCHANGED <<users, agents, inquiry, propertyViews, files,
                clientVars>>

UpdateProperty == \E auth \in Principals : UpdatePropertyBy(auth)

DeletePropertyBy(auth) ==
    /\ LET d == Decision(PropertyDeleteRule(auth, property)) IN
         /\ property' = IF d = "ALLOW" THEN NoProperty ELSE property
         /\ last' = Req("properties", "delete", auth, "p1", property,
                        NoProperty, d)
    /\ UNCHANGED <<users, agents, inquiry, propertyViews, files,
                clientVars>>

DeleteProperty == \E auth \in Principals : DeletePropertyBy(auth)

ReadProperty(auth) ==
  /\ last' = Req("properties", "read", auth, "p1", property, NoProperty,
                 Decision(PropertyRead))
  /\ UNCHANGED <<users, agents, property, inquiry, propertyViews, files,
                clientVars>>

\* isValidSavedByUpdate applied to a proposed document and the stored one
ValidateSavedBy ==
  \E incoming \in ValidatorDocs :
    /\ last' = Req("properties", "isValidSavedByUpdate", NoAuth, "p1",
                   property, incoming,
                   Decision(isValidSavedByUpdate(incoming, property)))
    /\ UNCHANGED <<users, agents, property, inquiry, propertyViews, files,
                clientVars>>

----------------------------------------------------------------------------
(* match /users/{userId} and match /agents/{agentId} *)

UserReadRule == "T"

\* The users write rule gated on the admin role as well
UserWriteRule_AdminOnly(auth, userId) ==
  And3(B3(isAuthenticated(auth)),
       And3(isOwner(auth, userId), isAdmin(auth, users)))

\* The users write rule with an extra grant for admins
UserWriteRule_AdminAny(auth, userId) ==
  And3(B3(isAuthenticated(auth)),
       Or3(isOwner(auth, userId), isAdmin(auth, users)))


UserWriteRule(auth, userId) ==
  And3(B3(isAuthenticated(auth)), isOwner(auth, userId))

AgentReadRule == "T"

\* The agents write rule without its isAgent() conjunct
AgentWriteRule_NoRole(auth, agentId, usersDb) ==
  And3(B3(isAuthenticated(auth)), isOwner(auth, agentId))

AgentWriteRule(auth, agentId, usersDb) ==
  And3(B3(isAuthenticated(auth)),
       And3(isOwner(auth, agentId), isAgent(auth, usersDb)))

\* The kind of a write that sets the document at a path to val
WriteOp(old, val) ==
  IF val = NoDoc THEN "delete" ELSE IF old = NoDoc THEN "create" ELSE "update"

WriteUser(auth, userId, val) ==
  /\ LET d == Decision(UserWriteRule(auth, userId)) IN
       /\ users' = IF d = "ALLOW" THEN [users EXCEPT ![userId] = val]
                   ELSE users
       /\ last' = Req("users", WriteOp(users[userId], val), auth, userId,
                      users[userId], val, d)
  /\ UNCHANGED <<agents, property, inquiry, propertyViews, files,
                clientVars>>

WriteAgent(auth, agentId, val) ==
  /\ LET d == Decision(AgentWriteRule(auth, agentId, users)) IN
       /\ agents' = IF d = "ALLOW" THEN [agents EXCEPT ![agentId] = val]
                    ELSE agents
       /\ last' = Req("agents", WriteOp(agents[agentId], val), auth, agentId,
                      agents[agentId], val, d)
  /\ UNCHANGED <<users, property, inquiry, propertyViews, files,
                clientVars>>

ReadUser(auth, userId) ==
  /\ last' = Req("users", "read", auth, userId, users[userId], NoDoc,
                 Decision(UserReadRule))
  /\ UNCHANGED <<users, agents, property, inquiry, propertyViews, files,
                clientVars>>

ReadAgent(auth, agentId) ==
  /\ last' = Req("agents", "read", auth, agentId, agents[agentId], NoDoc,
                 Decision(AgentReadRule))
  /\ UNCHANGED <<users, agents, property, inquiry, propertyViews, files,
                clientVars>>

\* Client role helpers: setDoc(doc(db, 'users', id), {role: ...},
\* {merge: true}) issued by the signed-in caller; the merged document
\* carries the new role whatever it held before
setUserAsAgent(caller, userId) == WriteUser(caller, userId, "agent")

updateUserRole(caller, uid, newRole) == WriteUser(caller, uid, newRole)


----------------------------------------------------------------------------
(* match /inquiries/{inquiryId} *)

InquiryCreateRule(auth) == B3(isAuthenticated(auth))

\* The inquiries read rule with an extra admin grant
InquiryReadRule_AdminToo(auth, resource) ==
  And3(B3(isAuthenticated(auth)),
       Or3(Or3(uidEquals(auth, resource, resource.userId),
               uidEquals(auth, resource, resource.agentId)),
           isAdmin(auth, users)))

InquiryReadRule(auth, resource) ==
  And3(B3(isAuthenticated(auth)),
       Or3(uidEquals(auth, resource, resource.userId),
           uidEquals(auth, resource, resource.agentId)))

InquiryUpdateRule(auth, resource, usersDb) ==
  And3(B3(isAuthenticated(auth)),
       Or3(uidEquals(auth, resource, resource.agentId),
           isAdmin(auth, usersDb)))

\* The inquiries delete rule gated on isAgent() instead of isAdmin()
InquiryDeleteRule_Agent(auth, usersDb) == isAgent(auth, usersDb)

InquiryDeleteRule(auth, usersDb) == isAdmin(auth, usersDb)

CreateInquiryBy(auth) ==
  \E doc \in InquiryDocs :
    /\ ~inquiry.exists
    /\ LET d == Decision(InquiryCreateRule(auth)) IN
         /\ inquiry' = IF d = "ALLOW" THEN doc ELSE inquiry
         /\ last' = Req("inquiries", "create", auth, "i1", inquiry, doc, d)
    /\ UNCHANGED <<users, agents, property, propertyViews, files,
                clientVars>>

CreateInquiry == \E auth \in Principals : CreateInquiryBy(auth)

ReadInquiryBy(auth) ==
    /\ last' = Req("inquiries", "read", auth, "i1", inquiry, NoInquiry,
                   Decision(InquiryReadRule(auth, inquiry)))
    /\ UNCHANGED <<users, agents, property, inquiry, propertyViews, files,
                clientVars>>

ReadInquiry == \E auth \in Principals : ReadInquiryBy(auth)

UpdateInquiryBy(auth) ==
  \E doc \in InquiryDocs :
    /\ inquiry.exists
    /\ LET d == Decision(InquiryUpdateRule(auth, inquiry, users)) IN
         /\ inquiry' = IF d = "ALLOW" THEN doc ELSE inquiry
         /\ last' = Req("inquiries", "update", auth, "i1", inquiry, doc, d)
    /\ UNCHANGED <<users, agents, property, propertyViews, files,
                clientVars>>

UpdateInquiry == \E auth \in Principals : UpdateInquiryBy(auth)

DeleteInquiryBy(auth) ==
    /\ LET d == Decision(InquiryDeleteRule(auth, users)) IN
         /\ inquiry' = IF d = "ALLOW" THEN NoInquiry ELSE inquiry
         /\ last' = Req("inquiries", "delete", auth, "i1", inquiry,
                        NoInquiry, d)
    /\ UNCHANGED <<users, agents, property, propertyViews, files,
                clientVars>>

DeleteInquiry == \E auth \in Principals : DeleteInquiryBy(auth)

----------------------------------------------------------------------------
(* match /propertyViews/{viewId} *)

PropertyViewRule == "T"

ViewRecord == "<view>"

WritePropertyView(auth, val) ==
  /\ LET d == Decision(PropertyViewRule) IN
       /\ propertyViews' = IF d = "ALLOW" THEN val ELSE propertyViews
       /\ last' = Req("propertyViews", WriteOp(propertyViews, val), auth,
                      "v1", propertyViews, val, d)
  /\ UNCHANGED <<users, agents, property, inquiry, files,
                clientVars>>

ReadPropertyView(auth) ==
  /\ last' = Req("propertyViews", "read", auth, "v1", propertyViews, NoDoc,
                 Decision(PropertyViewRule))
  /\ UNCHANGED <<users, agents, property, inquiry, propertyViews, files,
                clientVars>>

----------------------------------------------------------------------------
(* Storage rules *)

\* contentType.matches('image/.*'): the whole string matches the pattern
matchesImage(contentType) ==
  /\ Len(contentType) >= 6
  /\ SubSeq(contentType, 1, 6) = <<"i", "m", "a", "g", "e", "/">>

\* The size ceiling compared with <= instead of <
isValidFile_Inclusive(incoming) ==
  IF ~incoming.exists THEN "E"
  ELSE And3(B3(matchesImage(incoming.contentType)),
            B3(incoming.size <= MaxFileSize))

\* request.resource is null on a delete
isValidFile(incoming) ==
  IF ~incoming.exists THEN "E"
  ELSE And3(B3(matchesImage(incoming.contentType)),
            B3(incoming.size < MaxFileSize))

\* The property image create rule without its isAuthenticated() conjunct
StorageRule_OpenCreate(path, op, auth, userId, incoming) ==
  IF path = PropertyImages
  THEN IF op = "create"
       THEN isValidFile(incoming)
       ELSE And3(B3(isAuthenticated(auth)), isOwner(auth, userId))
  ELSE And3(B3(isAuthenticated(auth)),
            And3(isOwner(auth, userId), isValidFile(incoming)))

StorageRule(path, op, auth, userId, incoming) ==
  IF path = PropertyImages
  THEN IF op = "create"
       THEN And3(B3(isAuthenticated(auth)), isValidFile(incoming))
       ELSE And3(B3(isAuthenticated(auth)), isOwner(auth, userId))
  ELSE And3(B3(isAuthenticated(auth)),
            And3(isOwner(auth, userId), isValidFile(incoming)))

StorageReadRule == "T"

StorageWriteOp(old, val) ==
  IF ~val.exists THEN "delete" ELSE IF ~old.exists THEN "create" ELSE "update"

WriteFile(path, auth, val) ==
  /\ val.exists \/ files[path].exists
  /\ LET op == StorageWriteOp(files[path], val)
         d == Decision(StorageRule(path, op, auth, StorageOwner, val))
     IN /\ files' = IF d = "ALLOW" THEN [files EXCEPT ![path] = val]
                    ELSE files
        /\ last' = Req(path, op, auth, StorageOwner, files[path], val, d)
  /\ UNCHANGED <<users, agents, property, inquiry, propertyViews,
                clientVars>>

ReadFile(path, auth) ==
  /\ last' = Req(path, "read", auth, StorageOwner, files[path], NoFile,
                 Decision(StorageReadRule))
  /\ UNCHANGED <<users, agents, property, inquiry, propertyViews, files,
                clientVars>>

----------------------------------------------------------------------------
(* PropertyDetails: the fetchProperty effect of the property details page *)

\* details.account is the account the browser is signed in with, details.user
\* the value of useAuth().user in the component, null until the provider's
\* onAuthStateChanged callback has run; runs are the started fetchProperty
\* calls, each with the user its closure captured; issued counts the
\* updateDoc({views: increment(1)}) writes issued since the mount.
NoPage ==
  [mounted |-> FALSE, account |-> NoAuth, user |-> NoAuth, runs |-> <<>>,
   issued |-> 0]

EffectRun(user) == [user |-> user, pc |-> "getDoc"]

\* The page mounts and the effect runs for the first time
MountDetails(account, resolved) ==
  /\ ~details.mounted
  /\ property.exists => property.views.n + 2 <= MaxViews
  /\ LET user == IF resolved THEN account ELSE NoAuth IN
       details' = [mounted |-> TRUE, account |-> account, user |-> user,
                   runs |-> <<EffectRun(user)>>, issued |-> 0]
  /\ UNCHANGED <<users, agents, property, inquiry, propertyViews, files,
                 last, listing, authCtx, verifier>>

\* setUser(user) in the provider: user is a dependency of the effect, which
\* runs again
AuthStateResolved ==
  /\ details.mounted
  /\ details.account # NoAuth
  /\ details.user = NoAuth
  /\ details' = [details EXCEPT !.user = details.account,
                                !.runs = Append(@, EffectRun(details.account))]
  /\ UNCHANGED <<users, agents, property, inquiry, propertyViews, files,
                 last, listing, authCtx, verifier>>

\* getDoc resolves; user?.uid !== propertyData.agentId decides on the write
FetchPropertyGetDoc(i) ==
  /\ i \in 1..Len(details.runs)
  /\ details.runs[i].pc = "getDoc"
  /\ LET write == property.exists /\ details.runs[i].user # property.agentId
     IN details' =
          [details EXCEPT
             !.runs[i].pc = IF write THEN "updateDoc" ELSE "done",
             !.issued = IF write THEN @ + 1 ELSE @]
  /\ UNCHANGED <<users, agents, property, inquiry, propertyViews, files,
                 last, listing, authCtx, verifier>>

\* The credentials a write of the run carries: the account, or none when
\* the closure ran before the account was known to the page
RequestAuth(run) ==
  IF run.user = NoAuth THEN {NoAuth, details.account} ELSE {run.user}

\* updateDoc(..., {views: increment(1)}) is decided by the update rule
FetchPropertyUpdateDoc(i) ==
  /\ i \in 1..Len(details.runs)
  /\ details.runs[i].pc = "updateDoc"
  /\ property.exists
  /\ \E auth \in RequestAuth(details.runs[i]) :
       LET incoming == [property EXCEPT !.views = IntVal(@.n + 1)]
           d == Decision(PropertyUpdateRule(auth, incoming, property))
       IN /\ property' = IF d = "ALLOW" THEN incoming ELSE property
          /\ last' = Req("properties", "update", auth, "p1", property,
                         incoming, d)
  /\ details' = [details EXCEPT !.runs[i].pc = "done"]
  /\ UNCHANGED <<users, agents, inquiry, propertyViews, files,
                 listing, authCtx, verifier>>

\* The visit ends once its fetches have finished
UnmountDetails ==
  /\ details.mounted
  /\ \A i \in 1..Len(details.runs) : details.runs[i].pc = "done"
  /\ details' = NoPage
  /\ UNCHANGED <<users, agents, property, inquiry, propertyViews, files,
                 last, listing, authCtx, verifier>>

----------------------------------------------------------------------------
(* Listings: handleSaveProperty of the listings page, one page per user *)

\* shown is property.savedBy?.includes(user.uid) in the page's last
\* snapshot, isSaved the argument of the running call, savedBy the array
\* the call is about to write, done the kind of the user's last completed
\* call, calls the number of calls the user has started
NoListing ==
  [u \in Uids |->
     [pc |-> "idle", isSaved |-> FALSE, savedBy |-> <<>>, shown |-> FALSE,
      done |-> "none", calls |-> 0]]

\* A property as NewProperty's handleSubmit creates it, owned by an agent
\* who is not one of the users saving it
ListedProperty ==
  [exists |-> TRUE, agentId |-> "u3", views |-> IntVal(0),
   savedBy |-> ListVal(<<>>)]

includes(list, uid) == \E i \in 1..Len(list) : list[i] = uid

\* propertyData.savedBy || []
currentSavedBy(doc) ==
  IF doc.savedBy.kind = "list" THEN doc.savedBy.items ELSE <<>>

\* onSnapshot delivers the current documents to the page of user u
OnSnapshot(u) ==
  /\ property.exists
  /\ listing[u].shown # includes(currentSavedBy(property), u)
  /\ listing' = [listing EXCEPT
                   ![u].shown = includes(currentSavedBy(property), u)]
  /\ UNCHANGED <<users, agents, property, inquiry, propertyViews, files,
                 last, details, authCtx, verifier>>

\* The save button: handleSaveProperty(property.id,
\* property.savedBy?.includes(user.uid)) starts and issues its getDoc
handleSaveProperty(u) ==
  /\ listing[u].pc = "idle"
  /\ property.exists
  /\ listing[u].calls < MaxCalls
  /\ listing' = [listing EXCEPT ![u].pc = "getDoc",
                                ![u].isSaved = listing[u].shown,
                                ![u].calls = @ + 1]
  /\ UNCHANGED <<users, agents, property, inquiry, propertyViews, files,
                 last, details, authCtx, verifier>>

\* getDoc resolves and the array to write is computed from what it read
SaveGetDoc(u) ==
  /\ listing[u].pc = "getDoc"
  /\ listing' =
       IF ~property.exists
       THEN [listing EXCEPT ![u].pc = "idle", ![u].isSaved = FALSE]
       ELSE [listing EXCEPT
               ![u].pc = "updateDoc",
               ![u].savedBy =
                 IF listing[u].isSaved
                 THEN SelectSeq(currentSavedBy(property),
                                LAMBDA uid : uid # u)
                 ELSE Append(currentSavedBy(property), u)]
  /\ UNCHANGED <<users, agents, property, inquiry, propertyViews, files,
                 last, details, authCtx, verifier>>

\* updateDoc(propertyRef, {savedBy: ...}) is decided by the update rule
SaveUpdateDoc(u) ==
  /\ listing[u].pc = "updateDoc"
  /\ property.exists
  /\ LET incoming == [property EXCEPT !.savedBy = ListVal(listing[u].savedBy)]
         d == Decision(PropertyUpdateRule(u, incoming, property))
     IN /\ property' = IF d = "ALLOW" THEN incoming ELSE property
        /\ last' = Req("properties", "update", u, "p1", property, incoming, d)
        /\ listing' =
             [listing EXCEPT
                ![u].pc = "idle",
                ![u].isSaved = FALSE,
                ![u].savedBy = <<>>,
                ![u].done = IF d # "ALLOW" THEN @
                            ELSE IF listing[u].isSaved THEN "unsave"
                            ELSE "save"]
  /\ UNCHANGED <<users, agents, inquiry, propertyViews, files,
                 details, authCtx, verifier>>

----------------------------------------------------------------------------
(* AuthProvider: user, userRole and the calls that set them *)

\* currentUser is auth.currentUser; user, userRole and loading are the
\* provider's state; callbacks are the onAuthStateChanged notifications not
\* yet delivered; fetches are the fetchUserRole calls in flight, each with
\* the outcome of its getDoc once the read has been served; signingUp is
\* the account whose signUp has not finished
NoSession ==
  [currentUser |-> NoAuth, user |-> NoAuth, userRole |-> NullRole,
   loading |-> TRUE, callbacks |-> <<>>, fetches |-> <<>>,
   signingUp |-> NoAuth]

fetchUserRole(uid, from) == [uid |-> uid, result |-> "getDoc", from |-> from]

Without(seq, i) == SubSeq(seq, 1, i - 1) \o SubSeq(seq, i + 1, Len(seq))

\* signIn: signInWithEmailAndPassword resolves, then fetchUserRole is called
signIn(uid) ==
  /\ authCtx.currentUser # uid
  /\ authCtx.signingUp = NoAuth
  /\ Len(authCtx.callbacks) < MaxPending
  /\ Len(authCtx.fetches) < MaxPending
  /\ authCtx' = [authCtx EXCEPT
                   !.currentUser = uid,
                   !.callbacks = Append(@, uid),
                   !.fetches = Append(@, fetchUserRole(uid, "signIn"))]
  /\ UNCHANGED <<users, agents, property, inquiry, propertyViews, files,
                 last, details, listing, verifier>>

\* signUp as far as createUserWithEmailAndPassword and updateProfile
signUp(uid) ==
  /\ authCtx.currentUser # uid
  /\ authCtx.signingUp = NoAuth
  /\ users[uid] = NoDoc
  /\ Len(authCtx.callbacks) < MaxPending
  /\ authCtx' = [authCtx EXCEPT
                   !.currentUser = uid,
                   !.callbacks = Append(@, uid),
                   !.signingUp = uid]
  /\ UNCHANGED <<users, agents, property, inquiry, propertyViews, files,
                 last, details, listing, verifier>>

\* The rest of signUp: createUserDocument, then setUserRole('user')
signUpDocument ==
  /\ authCtx.signingUp # NoAuth
  /\ LET uid == authCtx.signingUp
         d == Decision(UserWriteRule(authCtx.currentUser, uid))
     IN /\ users' = IF d = "ALLOW" THEN [users EXCEPT ![uid] = "user"]
                    ELSE users
        /\ last' = Req("users", WriteOp(users[uid], "user"),
                       authCtx.currentUser, uid, users[uid], "user", d)
        /\ authCtx' = [authCtx EXCEPT
                         !.signingUp = NoAuth,
                         !.userRole = IF d = "ALLOW" THEN "user" ELSE @]
  /\ UNCHANGED <<agents, property, inquiry, propertyViews, files,
                 details, listing, verifier>>

\* signOut: firebaseSignOut resolves, then setUserRole(null)
signOut ==
  /\ authCtx.currentUser # NoAuth
  /\ authCtx.signingUp = NoAuth
  /\ Len(authCtx.callbacks) < MaxPending
  /\ authCtx' = [authCtx EXCEPT
                   !.currentUser = NoAuth,
                   !.callbacks = Append(@, NoAuth),
                   !.userRole = NullRole]
  /\ UNCHANGED <<users, agents, property, inquiry, propertyViews, files,
                 last, details, listing, verifier>>

\* The onAuthStateChanged callback up to its await
onAuthStateChanged ==
  /\ authCtx.callbacks # <<>>
  /\ LET user == Head(authCtx.callbacks) IN
       /\ user # NoAuth => Len(authCtx.fetches) < MaxPending
       /\ authCtx' =
            IF user # NoAuth
            THEN [authCtx EXCEPT
                    !.callbacks = Tail(@),
                    !.user = user,
                    !.fetches =
                      Append(@, fetchUserRole(user, "onAuthStateChanged"))]
            ELSE [authCtx EXCEPT
                    !.callbacks = Tail(@),
                    !.user = NoAuth,
                    !.userRole = NullRole,
                    !.loading = FALSE]
  /\ UNCHANGED <<users, agents, property, inquiry, propertyViews, files,
                 last, details, listing, verifier>>

\* The getDoc of a fetchUserRole is served, or fails
FetchGetDoc(i) ==
  /\ i \in 1..Len(authCtx.fetches)
  /\ authCtx.fetches[i].result = "getDoc"
  /\ \E failed \in BOOLEAN :
       authCtx' =
         [authCtx EXCEPT
            !.fetches[i].result =
              IF failed THEN "error"
              ELSE IF users[authCtx.fetches[i].uid] = NoDoc THEN "missing"
              ELSE users[authCtx.fetches[i].uid]]
  /\ UNCHANGED <<users, agents, property, inquiry, propertyViews, files,
                 last, details, listing, verifier>>

\* The rest of fetchUserRole, and of the callback that awaited it
FetchResolve(i) ==
  /\ i \in 1..Len(authCtx.fetches)
  /\ authCtx.fetches[i].result # "getDoc"
  /\ LET fetch == authCtx.fetches[i] IN
       authCtx' =
         [authCtx EXCEPT
            !.fetches = Without(@, i),
            !.userRole = IF fetch.result = "missing" THEN @
                         ELSE IF fetch.result = "error" THEN NullRole
                         ELSE fetch.result,
            !.loading = IF fetch.from = "onAuthStateChanged" THEN FALSE
                        ELSE @]
  /\ UNCHANGED <<users, agents, property, inquiry, propertyViews, files,
                 last, details, listing, verifier>>

----------------------------------------------------------------------------
(* roles.ts: verifyUserRole and getUserRole, and the writers of users/{uid} *)

NoVerifier == [pc |-> "idle", uid |-> NoAuth]

\* getUserRole(user) of roles.ts starts and issues its getDoc
ClientGetUserRole(uid) ==
  /\ verifier.pc = "idle"
  /\ verifier' = [pc |-> "getUserRole", uid |-> uid]
  /\ UNCHANGED <<users, agents, property, inquiry, propertyViews, files,
                 last, details, listing, authCtx>>

\* Its getDoc resolves: the stored role is returned, or verifyUserRole runs
ClientGetUserRoleGetDoc ==
  /\ verifier.pc = "getUserRole"
  /\ verifier' = IF users[verifier.uid] # NoDoc THEN NoVerifier
                 ELSE [verifier EXCEPT !.pc = "verifyUserRole"]
  /\ UNCHANGED <<users, agents, property, inquiry, propertyViews, files,
                 last, details, listing, authCtx>>

\* verifyUserRole(user) starts and issues its getDoc
verifyUserRole(uid) ==
  /\ verifier.pc = "idle"
  /\ verifier' = [pc |-> "verifyUserRole", uid |-> uid]
  /\ UNCHANGED <<users, agents, property, inquiry, propertyViews, files,
                 last, details, listing, authCtx>>

\* Its getDoc resolves: if (!userDoc.exists()) the setDoc follows
VerifyGetDoc ==
  /\ verifier.pc = "verifyUserRole"
  /\ verifier' = IF users[verifier.uid] # NoDoc THEN NoVerifier
                 ELSE [verifier EXCEPT !.pc = "setDoc"]
  /\ UNCHANGED <<users, agents, property, inquiry, propertyViews, files,
                 last, details, listing, authCtx>>

\* setDoc(doc(db, 'users', user.uid), {..., role: 'user', ...}), no merge
VerifySetDoc ==
  /\ verifier.pc = "setDoc"
  /\ LET uid == verifier.uid
         d == Decision(UserWriteRule(uid, uid))
     IN /\ users' = IF d = "ALLOW" THEN [users EXCEPT ![uid] = "user"]
                    ELSE users
        /\ last' = Req("users", WriteOp(users[uid], "user"), uid, uid,
                       users[uid], "user", d)
  /\ verifier' = NoVerifier
  /\ UNCHANGED <<agents, property, inquiry, propertyViews, files,
                 details, listing, authCtx>>

createUserDocument(caller, uid, role) == WriteUser(caller, uid, role)

----------------------------------------------------------------------------
(* validateFile and uploadImage of the storage helpers *)

MAX_FILE_SIZE == 5 * 1024 * 1024

ImageJpeg == <<"i", "m", "a", "g", "e", "/", "j", "p", "e", "g">>
ImageWebp == <<"i", "m", "a", "g", "e", "/", "w", "e", "b", "p">>
ALLOWED_IMAGE_TYPES == {ImageJpeg, ImagePng, ImageWebp}

\* The File objects a user can pick
PickedFiles ==
  [exists : {TRUE},
   contentType : ALLOWED_IMAGE_TYPES \cup {TextPlain},
   size : {MAX_FILE_SIZE - 1, MAX_FILE_SIZE, MAX_FILE_SIZE + 1}]

\* TRUE when validateFile returns without throwing
validateFile(file) ==
  /\ ~(file.size > MAX_FILE_SIZE)
  /\ file.contentType \in ALLOWED_IMAGE_TYPES

\* uploadImage: validateFile(file), then uploadBytes to the path
uploadImage(path, auth, file) ==
  /\ validateFile(file)
  /\ WriteFile(path, auth, file)

----------------------------------------------------------------------------
(* Specifications *)

\* No page is open and no client call is in flight
ClientIdle ==
  /\ details = NoPage
  /\ listing = NoListing
  /\ authCtx = NoSession
  /\ verifier = NoVerifier

EmptyStore ==
  /\ users = [u \in Uids |-> NoDoc]
  /\ agents = [u \in Uids |-> NoDoc]
  /\ property = NoProperty
  /\ inquiry = NoInquiry
  /\ propertyViews = NoDoc
  /\ files = [p \in StoragePaths |-> NoFile]
  /\ last = NoReq
  /\ ClientIdle

InitProperties == EmptyStore

NextProperties == CreateProperty \/ UpdateProperty \/ DeleteProperty

SpecProperties == InitProperties /\ [][NextProperties]_vars

\* Roles, agent profiles and inquiries
Init == EmptyStore

Next ==
  \/ \E auth \in Principals, userId \in Uids, val \in UserVals \cup {NoDoc} :
       WriteUser(auth, userId, val)
  \/ \E auth \in Principals, agentId \in Uids, val \in {AgentProfile, NoDoc} :
       WriteAgent(auth, agentId, val)
  \/ CreateInquiry
  \/ ReadInquiry
  \/ UpdateInquiry
  \/ DeleteInquiry

Spec == Init /\ [][Next]_vars

\* Agent profiles, with one principal acting alone
Self == "u1"

InitSelf ==
  /\ users \in [Uids -> {NoDoc, "user"}]
  /\ agents = [u \in Uids |-> NoDoc]
  /\ property = NoProperty
  /\ inquiry = NoInquiry
  /\ propertyViews = NoDoc
  /\ files = [p \in StoragePaths |-> NoFile]
  /\ last = NoReq
  /\ ClientIdle

NextSelf ==
  \/ \E userId \in Uids, val \in UserVals \cup {NoDoc} :
       WriteUser(Self, userId, val)
  \/ \E agentId \in Uids, val \in {AgentProfile, NoDoc} :
       WriteAgent(Self, agentId, val)

SpecSelf == InitSelf /\ [][NextSelf]_vars

\* Role changes made through the client role helpers
NextRoles ==
  \/ \E caller \in Principals, userId \in Uids :
       setUserAsAgent(caller, userId)
  \/ \E caller \in Principals, uid \in Uids, newRole \in Roles :
       updateUserRole(caller, uid, newRole)

SpecRoles == EmptyStore /\ [][NextRoles]_vars

\* Requests without an authenticated subject, on a store that authenticated
\* principals have filled or left empty
SampleProperty ==
  [exists |-> TRUE, agentId |-> "u1", views |-> IntVal(0),
   savedBy |-> ListVal(<<>>)]

SampleInquiry ==
  [exists |-> TRUE, userId |-> "u2", agentId |-> "u1", status |-> "new"]

SampleFile ==
  [exists |-> TRUE, contentType |-> ImagePng, size |-> MaxFileSize - 1]

InitAnon ==
  /\ users \in {[u \in Uids |-> NoDoc],
                [u \in Uids |-> IF u = "u1" THEN "admin" ELSE "user"]}
  /\ agents \in {[u \in Uids |-> NoDoc],
                 [u \in Uids |-> IF u = "u1" THEN AgentProfile ELSE NoDoc]}
  /\ property \in {NoProperty, SampleProperty}
  /\ inquiry \in {NoInquiry, SampleInquiry}
  /\ propertyViews \in {NoDoc, ViewRecord}
  /\ files \in {[p \in StoragePaths |-> NoFile],
                [p \in StoragePaths |-> SampleFile]}
  /\ last = NoReq
  /\ ClientIdle

NextAnon ==
  \/ \E userId \in Uids, val \in UserVals \cup {NoDoc} :
       WriteUser(NoAuth, userId, val)
  \/ \E userId \in Uids : ReadUser(NoAuth, userId)
  \/ \E agentId \in Uids, val \in {AgentProfile, NoDoc} :
       WriteAgent(NoAuth, agentId, val)
  \/ \E agentId \in Uids : ReadAgent(NoAuth, agentId)
  \/ CreatePropertyBy(NoAuth)
  \/ UpdatePropertyBy(NoAuth)
  \/ DeletePropertyBy(NoAuth)
  \/ ReadProperty(NoAuth)
  \/ CreateInquiryBy(NoAuth)
  \/ ReadInquiryBy(NoAuth)
  \/ UpdateInquiryBy(NoAuth)
  \/ DeleteInquiryBy(NoAuth)
  \/ \E val \in {ViewRecord, NoDoc} : WritePropertyView(NoAuth, val)
  \/ ReadPropertyView(NoAuth)
  \/ \E path \in StoragePaths, val \in Files \cup {NoFile} :
       WriteFile(path, NoAuth, val)
  \/ \E path \in StoragePaths : ReadFile(path, NoAuth)

SpecAnon == InitAnon /\ [][NextAnon]_vars

\* Property creation by principals of every role
NextCreate ==
  \/ \E auth \in Principals, userId \in Uids, val \in UserVals \cup {NoDoc} :
       WriteUser(auth, userId, val)
  \/ CreateProperty
  \/ DeleteProperty

SpecCreate == EmptyStore /\ [][NextCreate]_vars

\* The savedBy validator on bounded inputs
InitValidator ==
  /\ users = [u \in Uids |-> NoDoc]
  /\ agents = [u \in Uids |-> NoDoc]
  /\ property \in ValidatorDocs \cup {NoProperty}
  /\ inquiry = NoInquiry
  /\ propertyViews = NoDoc
  /\ files = [p \in StoragePaths |-> NoFile]
  /\ last = NoReq
  /\ ClientIdle

NextValidator == ValidateSavedBy

SpecValidator == InitValidator /\ [][NextValidator]_vars

\* Visits of the details page of one listed property
InitDetails ==
  /\ users = [u \in Uids |-> NoDoc]
  /\ agents = [u \in Uids |-> NoDoc]
  /\ property \in {NoProperty}
                    \cup {[SampleProperty EXCEPT !.agentId = a] : a \in Uids}
  /\ inquiry = NoInquiry
  /\ propertyViews = NoDoc
  /\ files = [p \in StoragePaths |-> NoFile]
  /\ last = NoReq
  /\ ClientIdle

NextDetails ==
  \/ \E account \in Principals, resolved \in BOOLEAN :
       MountDetails(account, resolved)
  \/ AuthStateResolved
  \/ \E i \in 1..2 : FetchPropertyGetDoc(i)
  \/ \E i \in 1..2 : FetchPropertyUpdateDoc(i)
  \/ UnmountDetails

SpecDetails == InitDetails /\ [][NextDetails]_vars

\* Users saving and unsaving one listed property
InitListing ==
  /\ users = [u \in Uids |-> NoDoc]
  /\ agents = [u \in Uids |-> NoDoc]
  /\ property = ListedProperty
  /\ inquiry = NoInquiry
  /\ propertyViews = NoDoc
  /\ files = [p \in StoragePaths |-> NoFile]
  /\ last = NoReq
  /\ ClientIdle

NextListing ==
  \/ \E u \in Uids : OnSnapshot(u)
  \/ \E u \in Uids : handleSaveProperty(u)
  \/ \E u \in Uids : SaveGetDoc(u)
  \/ \E u \in Uids : SaveUpdateDoc(u)

SpecListing == InitListing /\ [][NextListing]_vars

\* One browser session of the AuthProvider: u1 has a profile, u2 has none
InitAuth ==
  /\ users = [u \in Uids |-> IF u = "u1" THEN "agent" ELSE NoDoc]
  /\ agents = [u \in Uids |-> NoDoc]
  /\ property = NoProperty
  /\ inquiry = NoInquiry
  /\ propertyViews = NoDoc
  /\ files = [p \in StoragePaths |-> NoFile]
  /\ last = NoReq
  /\ ClientIdle

NextAuth ==
  \/ \E uid \in Uids : signIn(uid)
  \/ \E uid \in Uids : signUp(uid)
  \/ signUpDocument
  \/ signOut
  \/ onAuthStateChanged
  \/ \E i \in 1..MaxPending : FetchGetDoc(i)
  \/ \E i \in 1..MaxPending : FetchResolve(i)

SpecAuth == InitAuth /\ [][NextAuth]_vars

\* verifyUserRole and getUserRole next to the other writers of users/{uid}
NextVerify ==
  \/ \E uid \in Uids : ClientGetUserRole(uid)
  \/ ClientGetUserRoleGetDoc
  \/ \E uid \in Uids : verifyUserRole(uid)
  \/ VerifyGetDoc
  \/ VerifySetDoc
  \/ \E caller \in Uids, uid \in Uids, role \in Roles :
       createUserDocument(caller, uid, role)
  \/ \E caller \in Uids, uid \in Uids, role \in Roles :
       updateUserRole(caller, uid, role)
  \/ \E caller \in Uids, uid \in Uids : setUserAsAgent(caller, uid)

SpecVerify == EmptyStore /\ [][NextVerify]_vars

\* Uploads that go through the client's validateFile
NextUpload ==
  \E path \in StoragePaths, auth \in Principals, file \in PickedFiles :
    uploadImage(path, auth, file)

SpecUpload == EmptyStore /\ [][NextUpload]_vars

\* Stored files
NextStorage ==
  \E path \in StoragePaths, auth \in Principals, val \in Files \cup {NoFile} :
    WriteFile(path, auth, val)

SpecStorage == EmptyStore /\ [][NextStorage]_vars

----------------------------------------------------------------------------
(* Properties of the properties collection *)

PropertyUpdate == last.coll = "properties" /\ last.op = "update"

ChangeSet == affectedKeys(last.proposed, last.existing)

NonOwner ==
  /\ last.uid \in Uids
  /\ last.existing.exists
  /\ last.existing.agentId # last.uid

DropAt(l, i) == SubSeq(l, 1, i - 1) \o SubSeq(l, i + 1, Len(l))

OneIdAddedOrRemoved(E, P) ==
  /\ E.kind = "list"
  /\ P.kind = "list"
  /\ \/ \E i \in 1..Len(P.items) :
          /\ DropAt(P.items, i) = E.items
          /\ \A j \in 1..Len(E.items) : E.items[j] # P.items[i]
     \/ \E i \in 1..Len(E.items) : DropAt(E.items, i) = P.items

\* C1: an allowed update by an authenticated non-owner whose change set is
\* exactly {savedBy} adds exactly one id to savedBy or removes exactly one
\* id from it.
C1_SavedBySingleElementLaw ==
  (PropertyUpdate /\ NonOwner /\ ChangeSet = {"savedBy"}
     /\ last.decision = "ALLOW")
  => OneIdAddedOrRemoved(last.existing.savedBy, last.proposed.savedBy)

C3_ViewCounterAnyPrincipal ==
  (PropertyUpdate /\ last.uid \in Uids) =>
    /\ ChangeSet = {"views"} =>
         (last.decision = "ALLOW"
            <=> last.proposed.views.n = last.existing.views.n + 1)
    /\ ("views" \in ChangeSet /\ ChangeSet # {"views"}) =>
         last.decision = "DENY"

\* C3 (amended): for an authenticated principal who is not the owner, an
\* update that changes only views is allowed iff views grew by exactly 1,
\* and an update that changes views together with another field is denied.
C3_ViewCounter ==
  (PropertyUpdate /\ NonOwner) =>
    /\ ChangeSet = {"views"} =>
         (last.decision = "ALLOW"
            <=> last.proposed.views.n = last.existing.views.n + 1)
    /\ ("views" \in ChangeSet /\ ChangeSet # {"views"}) =>
         last.decision = "DENY"

C3_Witness ==
  /\ PropertyUpdate
  /\ NonOwner
  /\ ChangeSet = {"views"}
  /\ last.existing.views.n = 1
  /\ property.views.n = 2
  /\ last.decision = "ALLOW"

----------------------------------------------------------------------------
(* Properties of users, agents and inquiries *)

Elevated(uid) == uid \in Uids /\ users[uid] \in {"agent", "admin"}

\* C4: a principal acting alone obtains write access to its own agents
\* document: each write to its own users document is allowed whatever role
\* it sets, and once that role is agent or admin its write to its own
\* agents document is allowed.
C4_SelfEscalation ==
  /\ (last.coll = "users" /\ last.uid = Self /\ last.id = Self)
       => (last.decision = "ALLOW" /\ users[Self] = last.proposed)
  /\ (last.coll = "agents" /\ last.uid = Self /\ last.id = Self
        /\ Elevated(Self))
       => (last.decision = "ALLOW" /\ agents[Self] = last.proposed)

C4_Witness ==
  /\ last.coll = "agents"
  /\ last.uid = Self
  /\ last.id = Self
  /\ last.decision = "ALLOW"
  /\ agents[Self] = AgentProfile
  /\ users[Self] = "agent"
  /\ \A u \in Uids \ {Self} : users[u] \in {NoDoc, "user"}

\* C5: a read of an existing inquiry is allowed iff the principal is
\* authenticated and is the inquiry's buyer or its agent; the role of the
\* principal plays no part.
C5_InquiryRead ==
  (last.coll = "inquiries" /\ last.op = "read" /\ last.existing.exists) =>
    (last.decision = "ALLOW"
       <=> /\ last.uid \in Uids
           /\ last.uid \in {last.existing.userId, last.existing.agentId})

C5_Witness ==
  /\ last.coll = "inquiries"
  /\ last.op = "read"
  /\ last.existing.exists
  /\ last.uid \in Uids
  /\ users[last.uid] = "admin"
  /\ last.uid \notin {last.existing.userId, last.existing.agentId}
  /\ last.decision = "DENY"

\* C6: an inquiry update is allowed iff the principal is authenticated and
\* is the inquiry's agent or has role admin; an inquiry delete is allowed
\* iff the principal has role admin.
C6_InquiryMutation ==
  /\ (last.coll = "inquiries" /\ last.op = "update") =>
       (last.decision = "ALLOW"
          <=> /\ last.uid \in Uids
              /\ \/ last.uid = last.existing.agentId
                 \/ users[last.uid] = "admin")
  /\ (last.coll = "inquiries" /\ last.op = "delete") =>
       (last.decision = "ALLOW"
          <=> (last.uid \in Uids /\ users[last.uid] = "admin"))

C6_Witness ==
  /\ last.coll = "inquiries"
  /\ last.op = "delete"
  /\ last.existing.exists
  /\ last.uid = last.existing.agentId
  /\ last.uid # last.existing.userId
  /\ users[last.uid] = "agent"
  /\ last.decision = "DENY"
  /\ inquiry = last.existing

Unresolved(uid) == uid = NoAuth \/ users[uid] \in {NoDoc, NoRoleField}

\* C7: when the principal is unauthenticated, has no users document, or
\* its role cannot be read, every role-gated condition is unsatisfied: an
\* agents write, an inquiry delete, and an inquiry update by a principal
\* who is not the inquiry's agent are denied.
C7_FailClosed ==
  Unresolved(last.uid) =>
    /\ last.coll = "agents" => last.decision = "DENY"
    /\ (last.coll = "inquiries" /\ last.op = "delete") =>
         last.decision = "DENY"
    /\ (last.coll = "inquiries" /\ last.op = "update"
          /\ last.uid # last.existing.agentId) => last.decision = "DENY"

C7_Witness ==
  /\ last.coll = "inquiries"
  /\ last.op = "delete"
  /\ last.existing.exists
  /\ last.uid \in Uids
  /\ users[last.uid] = NoDoc
  /\ \E u \in Uids : users[u] = "admin"
  /\ last.decision = "DENY"

\* C10: a write to agents/{agentId} is allowed iff the principal is
\* authenticated, is agentId, and the role stored in its users document is
\* agent or admin.
C10_AgentWrite ==
  last.coll = "agents" =>
    (last.decision = "ALLOW"
       <=> (last.uid \in Uids /\ last.uid = last.id /\ Elevated(last.uid)))

C10_Witness ==
  /\ last.coll = "agents"
  /\ last.uid \in Uids
  /\ last.uid = last.id
  /\ users[last.uid] = "user"
  /\ last.decision = "DENY"
  /\ \E u \in Uids : agents[u] = AgentProfile

----------------------------------------------------------------------------
(* Properties of stored files *)

\* C8: a create under properties/{userId}/{imageId} is allowed iff the
\* principal is authenticated, the content type matches image/.* and the
\* size is below 5 MiB, whoever the path's owner is; a file of exactly
\* 5 MiB is denied and an image/png of 5 MiB - 1 is allowed.
C8_PropertyImageCreate ==
  (last.coll = PropertyImages /\ last.op = "create") =>
    /\ last.decision = "ALLOW"
         <=> /\ last.uid \in Uids
             /\ last.proposed.contentType = ImagePng
             /\ last.proposed.size < 5 * 1024 * 1024
    /\ last.proposed.size = 5 * 1024 * 1024 => last.decision = "DENY"
    /\ (last.uid \in Uids /\ last.proposed.contentType = ImagePng
          /\ last.proposed.size = 5 * 1024 * 1024 - 1)
         => last.decision = "ALLOW"

C8_Witness ==
  /\ last.coll = PropertyImages
  /\ last.op = "create"
  /\ last.uid \in Uids \ {StorageOwner}
  /\ last.proposed.contentType = ImagePng
  /\ last.proposed.size = 5 * 1024 * 1024 - 1
  /\ last.decision = "ALLOW"
  /\ files[PropertyImages] = last.proposed

\* C9: an update or a delete of a stored file is allowed when the principal
\* is the owner named in the path and denied for every other principal.
C9_OwnerGatedWrite ==
  (last.coll \in StoragePaths /\ last.op \in {"update", "delete"}) =>
    (last.decision = "ALLOW" <=> last.uid = StorageOwner)

----------------------------------------------------------------------------
(* Properties of users documents *)

\* C11: a write to users/{userId} is allowed iff the principal is
\* authenticated and is userId; an admin cannot write another subject's
\* users document.
C11_UserWrite ==
  last.coll = "users" =>
    /\ last.decision = "ALLOW" <=> (last.uid \in Uids /\ last.uid = last.id)
    /\ last.decision = "DENY" => users[last.id] = last.existing
    /\ last.decision = "ALLOW" => users[last.id] = last.proposed

C11_Witness ==
  /\ last.coll = "users"
  /\ last.uid \in Uids
  /\ last.uid # last.id
  /\ users[last.uid] = "admin"
  /\ last.proposed = "agent"
  /\ last.decision = "DENY"

\* C12: setUserAsAgent(userId) changes a role only when the caller has role
\* admin; a call by a principal whose role is not admin changes no user's
\* role.
C12_OnlyAdminMakesAgent ==
  [][\A caller \in Principals, userId \in Uids :
       (/\ setUserAsAgent(caller, userId)
        /\ ~(caller \in Uids /\ users[caller] = "admin"))
       => users' = users]_vars

----------------------------------------------------------------------------
(* Properties of requests without an authenticated subject *)

\* C13: for a request without an authenticated subject, every write to
\* users, agents, properties and inquiries, every read of inquiries and
\* every storage write is denied; reads of users, agents, properties and
\* stored files, and reads and writes of propertyViews, are allowed.
C13_Anonymous ==
  (last.uid = NoAuth /\ last.coll # "none") =>
    (last.decision = "ALLOW"
       <=> \/ last.coll = "propertyViews"
           \/ (last.op = "read" /\ last.coll # "inquiries"))

C13_Witness ==
  /\ last.uid = NoAuth
  /\ last.coll = "inquiries"
  /\ last.op = "delete"
  /\ last.existing = SampleInquiry
  /\ last.decision = "DENY"
  /\ inquiry = SampleInquiry
  /\ users["u1"] = "admin"

----------------------------------------------------------------------------
(* Properties of property creation *)

\* C14: a create in properties is allowed iff the principal is
\* authenticated, whatever its role and whatever agentId, views and savedBy
\* the proposed document carries; an allowed create stores the proposed
\* document.
C14_PropertyCreate ==
  (last.coll = "properties" /\ last.op = "create") =>
    /\ last.decision = "ALLOW" <=> last.uid \in Uids
    /\ last.decision = "ALLOW" => property = last.proposed

C14_Witness ==
  /\ last.coll = "properties"
  /\ last.op = "create"
  /\ last.uid \in Uids
  /\ users[last.uid] = "user"
  /\ last.proposed.agentId # last.uid
  /\ last.proposed.views.n = MaxViews
  /\ last.proposed.savedBy = NotAList
  /\ last.decision = "ALLOW"
  /\ property = last.proposed

----------------------------------------------------------------------------
(* Properties of role resolution over time *)

\* C15: every role-gated decision uses the role stored in users/{uid} when
\* the request is evaluated, whatever role the document held earlier: a
\* principal whose stored role is not admin is denied an inquiry delete and
\* an update of an inquiry it is not the agent of, and a principal whose
\* stored role is neither agent nor admin is denied a write to agents.
C15_RoleFreshness ==
  [][\A u \in Uids :
       last'.uid = u =>
         /\ (/\ users[u] # "admin"
             /\ last'.coll = "inquiries"
             /\ last'.op = "delete") => last'.decision = "DENY"
         /\ (/\ users[u] # "admin"
             /\ last'.coll = "inquiries"
             /\ last'.op = "update"
             /\ last'.existing.agentId # u) => last'.decision = "DENY"
         /\ (/\ users[u] \notin {"agent", "admin"}
             /\ last'.coll = "agents") => last'.decision = "DENY"]_vars

\* A principal that once held an elevated role (it owns an agents
\* document) and now has role user is denied a write to that document
C15_Witness ==
  /\ last.coll = "agents"
  /\ last.uid \in Uids
  /\ last.id = last.uid
  /\ agents[last.uid] = AgentProfile
  /\ users[last.uid] = "user"
  /\ last.decision = "DENY"

----------------------------------------------------------------------------
(* Properties of the savedBy validator *)

Validated ==
  /\ last.op = "isValidSavedByUpdate"
  /\ last.existing.exists
  /\ last.existing.savedBy.kind = "list"

Count(l, x) == Cardinality({i \in 1..Len(l) : l[i] = x})

SingleAdd(E, P) ==
  \E x \in ValidatorIds :
    /\ Count(E, x) = 0
    /\ \A y \in ValidatorIds :
         Count(P, y) = Count(E, y) + (IF y = x THEN 1 ELSE 0)

SingleRemove(E, P) ==
  \E x \in ValidatorIds :
    /\ Count(E, x) > 0
    /\ \A y \in ValidatorIds :
         Count(P, y) = Count(E, y) - (IF y = x THEN 1 ELSE 0)

\* C17: for an existing savedBy list E and a proposed savedBy P, the
\* validator is true iff P is a list that is E plus exactly one id not in E,
\* or E with exactly one id dropped; it is false for a non-list or missing
\* savedBy.
C17_ValidatorResult ==
  Validated =>
    (last.decision = "ALLOW"
       <=> /\ last.proposed.savedBy.kind = "list"
           /\ \/ SingleAdd(last.existing.savedBy.items,
                           last.proposed.savedBy.items)
              \/ SingleRemove(last.existing.savedBy.items,
                              last.proposed.savedBy.items))

Perms(l) ==
  {[i \in 1..Len(l) |-> l[p[i]]] : p \in Permutations(1..Len(l))}

WithSaved(doc, l) == [doc EXCEPT !.savedBy = ListVal(l)]

\* C18: the validator's result on lists E and P is its result on every
\* permutation of E and every permutation of P.
C18_OrderIndependence ==
  (Validated /\ last.proposed.savedBy.kind = "list") =>
    \A E \in Perms(last.existing.savedBy.items),
       Q \in Perms(last.proposed.savedBy.items) :
      Decision(isValidSavedByUpdate(WithSaved(last.proposed, Q),
                                    WithSaved(last.existing, E)))
        = last.decision

C18_Witness ==
  /\ Validated
  /\ last.existing.savedBy.items = <<"u1", "u2">>
  /\ last.proposed.savedBy = ListVal(<<"u3", "u2", "u1">>)
  /\ last.decision = "ALLOW"

----------------------------------------------------------------------------
(* Properties of non-owner writes to properties *)

\* C19: an allowed update by a principal who is not the owner changes no
\* field other than views or savedBy; an update that proposes another
\* agentId is denied to a non-owner, a delete by a non-owner is denied, and
\* after any update or delete by a non-owner the property exists with the
\* owner it had.
C19_FieldScoped ==
  (/\ last.coll = "properties"
   /\ last.op \in {"update", "delete"}
   /\ last.existing.exists
   /\ last.existing.agentId # last.uid)
  => /\ property.exists
     /\ property.agentId = last.existing.agentId
     /\ last.op = "delete" => last.decision = "DENY"
     /\ (last.op = "update" /\ last.decision = "ALLOW") =>
          /\ ChangeSet \subseteq {"views", "savedBy"}
          /\ property = last.proposed
     /\ (last.op = "update"
         /\ last.proposed.agentId # last.existing.agentId) =>
          last.decision = "DENY"

C19_Witness ==
  /\ PropertyUpdate
  /\ NonOwner
  /\ ChangeSet = {"savedBy"}
  /\ last.decision = "ALLOW"
  /\ property = last.proposed
  /\ property.agentId = last.existing.agentId

\* C20: whatever was requested before, an update by an authenticated
\* non-owner that changes only views and adds exactly 1 is allowed and
\* stores views + 1, so the same principal can repeat it; and every allowed
\* update by a non-owner leaves views unchanged or greater by exactly 1.
C20_ViewReplay ==
  [][(/\ last'.coll = "properties"
      /\ last'.op = "update"
      /\ last'.uid \in Uids
      /\ property.exists
      /\ property.agentId # last'.uid)
     => /\ (/\ affectedKeys(last'.proposed, property) = {"views"}
            /\ last'.proposed.views.n = property.views.n + 1)
           => /\ last'.decision = "ALLOW"
              /\ property'.views.n = property.views.n + 1
        /\ last'.decision = "ALLOW"
           => property'.views.n \in {property.views.n, property.views.n + 1}]_vars

C20_Witness ==
  /\ PropertyUpdate
  /\ last.uid = "u2"
  /\ last.existing.exists
  /\ last.existing.agentId = "u1"
  /\ last.existing.views.n = MaxViews - 1
  /\ property.views.n = MaxViews
  /\ property.savedBy = last.existing.savedBy
  /\ last.decision = "ALLOW"

----------------------------------------------------------------------------
(* Properties of the client pages and helpers *)

OwnerVisit ==
  /\ details.mounted
  /\ property.exists
  /\ details.account = property.agentId

\* C21: while the owner of the property has its details page open, no
\* views increment has been issued for the visit, also when the page mounted
\* with user still null.
C21_OwnerViewsNotCounted == OwnerVisit => details.issued = 0

\* C22: once two different users have each completed an accepted save of
\* the same property, whatever the interleaving of their reads and writes
\* was, savedBy holds both ids.
C22_NoLostSaves ==
  \A u, v \in Uids :
    (/\ u # v
     /\ listing[u].done = "save"
     /\ listing[v].done = "save")
    => /\ includes(currentSavedBy(property), u)
       /\ includes(currentSavedBy(property), v)

\* C23: userRole is null or the role stored for the signed-in user, and it
\* is null whenever user is null.
C23_AuthContextConsistent ==
  /\ authCtx.user = NoAuth => authCtx.userRole = NullRole
  /\ authCtx.userRole # NullRole =>
       /\ authCtx.user \in Uids
       /\ authCtx.userRole = users[authCtx.user]

\* C24: an object stored under properties/{ownerId}/ has a content type
\* matching image/.* and a size below 5 MiB.
C24_StoredImagesValid ==
  files[PropertyImages].exists => isValidFile(files[PropertyImages]) = "T"

\* C25: an upload by an authenticated user of a file that validateFile
\* accepts satisfies the rule's isValidFile.
C25_ClientImpliesServer ==
  (/\ last.coll \in StoragePaths
   /\ last.op \in {"create", "update"}
   /\ last.uid \in Uids
   /\ validateFile(last.proposed))
  => isValidFile(last.proposed) = "T"

\* C26: the setDoc of verifyUserRole leaves a users/{uid} document that
\* exists at the moment of the write as it is.
C26_DefaultRoleNoOverwrite ==
  [][(/\ verifier.pc = "setDoc"
      /\ verifier'.pc = "idle"
      /\ users[verifier.uid] # NoDoc)
     => users'[verifier.uid] = users[verifier.uid]]_vars

\* C27: during one visit of the details page by a signed-in user who is not
\* the owner, at most one views increment is issued.
C27_OneViewPerVisit ==
  (/\ details.mounted
   /\ property.exists
   /\ details.account \in Uids
   /\ details.account # property.agentId)
  => details.issued <= 1

NoDuplicates(list) ==
  \A i, j \in 1..Len(list) : list[i] = list[j] => i = j

\* C28: starting from savedBy = [], savedBy holds each user id at most once,
\* and a user's id is in it iff the user's last completed call was a save.
C28_SavedByDuplicateFree ==
  /\ NoDuplicates(currentSavedBy(property))
  /\ \A u \in Uids :
       includes(currentSavedBy(property), u) <=> listing[u].done = "save"

====
